---- MODULE Spec2Model ----
(***************************************************************************)
(* Model of the dashboard's non-presentational logic:                      *)
(*   - the alert rule evaluator of AlertsRules.tsx (both variants kept in  *)
(*     the source file: the first one, and the stale-aware sorted one);    *)
(*   - the latest-value poller of Home (page.tsx);                         *)
(*   - the mount / interval / cleanup effects of the polling views;        *)
(*   - the merge-by-timestamp of the history route;                        *)
(*   - the statistics memo of TrendInsights.tsx (min, max, mean, idealPct, *)
(*     trend labels), in exact arithmetic on readings in 1/Scale units;    *)
(*   - the control flow of the proxy GET handlers (latest, history): the   *)
(*     configuration check, the two upstream requests, the catch;          *)
(*   - the values Home derives from its state for its tiles, diagnosis and *)
(*     recommended actions.                                                *)
(* Times are epoch milliseconds.  Readings are sampled at the integers     *)
(* around the rule thresholds.  The presentation strings of an alert       *)
(* (title, valueText, suggestion) are not part of the model.               *)
(***************************************************************************)
EXTENDS Integers, Sequences, FiniteSets

VARIABLES
  clock,         \* Date.now(), epoch ms
  horizon,       \* last clock value explored
  phase,         \* per view: "absent" (not rendered), "new" (rendered, effect not
                 \* run yet), "mounted", "unmounted"
  timer,         \* per view: due time of the setInterval timer, NULL when none
  mountAt,       \* per view: clock value when the effect ran
  ticks,         \* per view: number of interval callbacks run
  issued,        \* per view: number of fetch() calls made (AlertsRules: setNow calls)
  inflight,      \* per view: ids of the fetches not yet resolved
  temperature,   \* Home state
  humidity,      \* Home state
  status,        \* Home state
  lastUpdateTs,  \* Home state, prop ts of AlertsRules
  now,           \* AlertsRules state
  alerts,        \* AlertsRules: value of the alerts memo at the last render
  variant,       \* which AlertsRules of the source file is rendered: 1 or 2
  okOrder,       \* Home: the ids of the fetchData calls whose 2xx continuation has
                 \* run, in the order they ran
  historyRoute,  \* which GET of /api/tb/history runs: 1 api/tb/history/route.ts,
                 \* 2 the history route kept in page.tsx
  suhuList,      \* history GET: teleJson.temperature, [ts, value] with value a text
  rhList,        \* history GET: teleJson.humidity
  points,        \* history GET: the merged, sorted array
  body,          \* history GET: the JSON body of the response
  mergePc,       \* history GET: "merging" (telemetry received), "done" (returned)
  trendPoints,   \* TrendInsights state points: the samples of the last 2xx response
  stats,         \* TrendInsights: value of the stats memo at the last render
  trendPc,       \* TrendInsights: "idle", "set" (setPoints called), "rendered"
  handler,       \* proxy GET: "latest" or "history"
  env,           \* proxy GET: process.env, per variable "unset", "empty" or "set"
  proxyPc,       \* proxy GET: "start", "login" / "telemetry" (awaiting that
                 \* fetch), "done" (returned), "crashed" (threw)
  upstream,      \* proxy GET: the upstream requests issued, in order
  responses,     \* proxy GET: the HTTP responses returned, in order
  loginRes,      \* proxy GET: outcome of the login fetch
  teleRes,       \* proxy GET: outcome of the telemetry fetch
  thrown,        \* proxy GET: String(err) of the error thrown inside try
  latest         \* latest GET: the JSON body of its 2xx response

\* the page and its views
pageVars == << clock, horizon, phase, timer, mountAt, ticks, issued, inflight,
               temperature, humidity, status, lastUpdateTs, now, alerts,
                  variant, okOrder >>

\* the history route
mergeVars == << historyRoute, suhuList, rhList, points, body, mergePc >>

\* the statistics panel
trendVars == << trendPoints, stats, trendPc >>

\* the proxy GET handlers; the history GET also writes the merge variables
proxyVars == << handler, env, proxyPc, upstream, responses, loginRes, teleRes,
                thrown, latest >>

vars == << pageVars, mergeVars, trendVars, proxyVars >>

\* what an action of the page, of the history route, of the statistics panel,
\* of a proxy GET leaves alone
notPage == << mergeVars, trendVars, proxyVars >>
notMerge == << pageVars, trendVars, proxyVars >>
notTrend == << pageVars, mergeVars, proxyVars >>
notProxy == << pageVars, mergeVars, trendVars >>

\* number | null: the null of the source
NULL == -1
\* NaN, the result of Number() and parseFloat() on a text that is no number
NAN == -2
\* undefined: a property the object does not have
ABSENT == -3

\* ------------------------------------------------------------------ bounds
\* epoch of the first state
T0 == 200000
\* clock steps explored by the evaluator specification
AlertSteps == 2

\* clock steps explored by the poller specification
PollSteps == 10

\* longest telemetry series of one key given to the history GET
MaxSeries == 2
\* clock steps explored by the timer specification
TimerSteps == 15

\* the readings of the statistics panel are integers in 1/Scale of a unit
Scale == 10
\* longest history over the readings around the ideal bounds
MaxShort == 2
\* longest history over the readings of the trend windows
MaxWindowed == 8
\* longest history over one ideal and one non-ideal reading
MaxCensus == 10

\* clock steps explored by the recovery specification
RecoverSteps == 10

\* granularity of the modelled clock: the shortest interval of the source
Step == 1000

Statuses == {"ONLINE", "OFFLINE", "UNKNOWN"}
Views == {"Home", "TelemetryChart", "TrendInsights", "AlertsRules"}
Variants == {1, 2}

TempInputs == {NULL, 19, 20, 21, 22, 25, 28, 29, 30, 31}
HumInputs == {NULL, 64, 65, 66, 70, 80, 90, 91, 94, 95}
TsInputs == {NULL, 0, T0, T0 - 119000, T0 - 120000, T0 - 120001}

\* the telemetry series of one key: [ts, value] in any order, timestamps may repeat
MergeTs == {100, 200, 300}
MergeTexts == {"20", "abc"}
TBPoint == [ts : MergeTs, value : MergeTexts]
SeriesInputs == UNION { [1..n -> TBPoint] : n \in 0..MaxSeries }

\* the series of one key answered to the latest GET (limit=1): none or one point,
\* its value a number, no number, a number followed by other text, the empty text
LatestTexts == {"20", "abc", "12abc", ""}
LatestSeries ==
  { << >> } \cup { << [ts |-> t, value |-> x] >> : t \in {100, 200}, x \in LatestTexts }
TeleSeries(h) == IF h = "latest" THEN LatestSeries ELSE SeriesInputs

\* bodies of a 2xx response of /api/tb/latest received when Date.now() = t
PollReadings == { << NULL, NULL >>, << 25, 80 >>, << 31, 60 >> }
PollAges == {0, 120000, 120001}
LatestJson(t) ==
  { [temperature |-> r[1], humidity |-> r[2], ts |-> x] :
      r \in PollReadings, x \in {NULL, 0} \cup { t - a : a \in PollAges } }

\* the samples of a 2xx response of /api/tb/history, as << temperature, humidity >>
\* in 1/Scale of a unit: around the bounds of the ideal band, for the two trend
\* windows, and one ideal and one non-ideal reading
ShortTemps == {NULL, ABSENT, 22 * Scale - 1, 22 * Scale, 28 * Scale, 28 * Scale + 1}
ShortHums == {NULL, 70 * Scale - 1, 70 * Scale, 90 * Scale, 90 * Scale + 1, 150 * Scale}
ShortReadings == ShortTemps \X ShortHums
WindowReadings == { << 25 * Scale, 80 * Scale >>, << 25 * Scale + 2, 150 * Scale >>,
                    << NULL, 80 * Scale + 1 >> }
CensusReadings == { << 25 * Scale, 80 * Scale >>, << 30 * Scale, 80 * Scale >> }
HistoryOf(rs) ==
  [i \in 1..Len(rs) |-> [ts |-> T0 + i, temperature |-> rs[i][1], humidity |-> rs[i][2]]]
Histories ==
  { HistoryOf(rs) :
      rs \in UNION { [1..n -> ShortReadings] : n \in 0..MaxShort }
          \cup UNION { [1..n -> WindowReadings] : n \in 0..MaxWindowed }
          \cup UNION { [1..n -> CensusReadings] : n \in 0..MaxCensus } }

\* ------------------------------------------------------- alert evaluator
\* JavaScript truthiness of a number | null: null and 0 are falsy
Truthy(x) == x # NULL /\ x # 0

severityRank(sev) == IF sev = "CRIT" THEN 0 ELSE IF sev = "WARN" THEN 1 ELSE 2

\* const safeNow = now ?? ts ?? 0
SafeNow(ts, nw) == IF nw # NULL THEN nw ELSE IF ts # NULL THEN ts ELSE 0

\* const safeTs = ts ?? safeNow
SafeTs(ts, nw) == IF ts # NULL THEN ts ELSE SafeNow(ts, nw)

\* const stale = ts && now ? safeNow - ts > 2 * 60 * 1000 : false
Stale(ts, nw) ==
  IF Truthy(ts) /\ Truthy(nw) THEN SafeNow(ts, nw) - ts > 2 * 60 * 1000 ELSE FALSE

\* first variant: if (!ts || status === "OFFLINE")
GatewayFirst(st, ts, nw) == ~Truthy(ts) \/ st = "OFFLINE"

\* stale-aware variant: if (!ts || status === "OFFLINE" || stale)
GatewayStale(st, ts, nw) == ~Truthy(ts) \/ st = "OFFLINE" \/ Stale(ts, nw)

GatewayAlert(ts, nw) ==
  << [id |-> "gateway-offline", severity |-> "CRIT", ts |-> SafeTs(ts, nw)] >>

MutTempHighInclusive(t, sts) ==
  IF t # NULL /\ t >= 28
    THEN << [id |-> "temp-high",
             severity |-> IF t > 30 THEN "CRIT" ELSE "WARN", ts |-> sts] >>
    ELSE << >>
TempHigh(t, sts) ==
  IF t # NULL /\ t > 28
    THEN << [id |-> "temp-high",
             severity |-> IF t > 30 THEN "CRIT" ELSE "WARN", ts |-> sts] >>
    ELSE << >>

MutTempLowOverlaps(t, sts) ==
  IF t # NULL /\ t <= 29
    THEN << [id |-> "temp-low",
             severity |-> IF t < 20 THEN "CRIT" ELSE "WARN", ts |-> sts] >>
    ELSE << >>
TempLow(t, sts) ==
  IF t # NULL /\ t < 22
    THEN << [id |-> "temp-low",
             severity |-> IF t < 20 THEN "CRIT" ELSE "WARN", ts |-> sts] >>
    ELSE << >>

RhHigh(h, sts) ==
  IF h # NULL /\ h > 90
    THEN << [id |-> "rh-high",
             severity |-> IF h > 94 THEN "CRIT" ELSE "WARN", ts |-> sts] >>
    ELSE << >>

MutRhLowSeverity(h, sts) ==
  IF h # NULL /\ h < 70
    THEN << [id |-> "rh-low",
             severity |-> IF h <= 65 THEN "CRIT" ELSE "WARN", ts |-> sts] >>
    ELSE << >>
RhLow(h, sts) ==
  IF h # NULL /\ h < 70
    THEN << [id |-> "rh-low",
             severity |-> IF h < 65 THEN "CRIT" ELSE "WARN", ts |-> sts] >>
    ELSE << >>

\* the four threshold rules, pushed in source order
ThresholdRules(t, h, sts) ==
  TempHigh(t, sts) \o TempLow(t, sts) \o RhHigh(h, sts) \o RhLow(h, sts)

\* comparator of out.sort: severityRank(a) - severityRank(b), then b.ts - a.ts
AlertCmp(a, b) ==
  LET s == severityRank(a.severity) - severityRank(b.severity)
  IN IF s # 0 THEN s ELSE b.ts - a.ts

\* x placed into the sorted sequence s after every element not greater than it
RECURSIVE InsertAlert(_, _)
InsertAlert(x, s) ==
  IF s = << >> THEN << x >>
  ELSE IF AlertCmp(x, Head(s)) < 0 THEN << x >> \o s
  ELSE << Head(s) >> \o InsertAlert(x, Tail(s))

\* Array.prototype.sort with AlertCmp: a stable sort
RECURSIVE SortAlerts(_)
SortAlerts(s) ==
  IF s = << >> THEN << >>
  ELSE InsertAlert(s[Len(s)], SortAlerts(SubSeq(s, 1, Len(s) - 1)))

\* alerts useMemo of the first variant: gateway rule, then the rules unsorted
AlertsFirst(t, h, st, ts, nw) ==
  IF GatewayFirst(st, ts, nw)
    THEN GatewayAlert(ts, nw)
    ELSE ThresholdRules(t, h, SafeTs(ts, nw))

MutAlertsNoReturn(t, h, st, ts, nw) ==
  IF GatewayStale(st, ts, nw)
    THEN SortAlerts(GatewayAlert(ts, nw) \o ThresholdRules(t, h, SafeTs(ts, nw)))
    ELSE SortAlerts(ThresholdRules(t, h, SafeTs(ts, nw)))
\* alerts useMemo of the stale-aware variant: gateway rule, then the rules sorted
AlertsStale(t, h, st, ts, nw) ==
  IF GatewayStale(st, ts, nw)
    THEN GatewayAlert(ts, nw)
    ELSE SortAlerts(ThresholdRules(t, h, SafeTs(ts, nw)))

\* the memo of the rendered component
AlertsMemo(v, t, h, st, ts, nw) ==
  IF v = 1 THEN AlertsFirst(t, h, st, ts, nw) ELSE AlertsStale(t, h, st, ts, nw)

\* ------------------------------------------------------ effects and timers
MutPeriodTrendFast(v) ==
  CASE v = "Home" -> 5000
    [] v = "TelemetryChart" -> 5000
    [] v = "TrendInsights" -> 5000
    [] v = "AlertsRules" -> 1000
\* period of each view's setInterval
Period(v) ==
  CASE v = "Home" -> 5000
    [] v = "TelemetryChart" -> 5000
    [] v = "TrendInsights" -> 15000
    [] v = "AlertsRules" -> 1000

Pollers == {"Home", "TelemetryChart", "TrendInsights"}

\* the body run by the effect and by each interval callback of view v:
\* a poller issues one fetch, AlertsRules calls setNow(Date.now())
RunCallback(v) ==
  /\ issued' = [issued EXCEPT ![v] = @ + 1]
  /\ IF v \in Pollers
       THEN /\ inflight' = [inflight EXCEPT ![v] = @ \cup {issued[v] + 1}]
            /\ UNCHANGED << now, alerts >>
       ELSE /\ now' = clock
            /\ alerts' = AlertsMemo(variant, temperature, humidity, status,
                                    lastUpdateTs, clock)
            /\ UNCHANGED inflight

\* useEffect(() => { f(); const id = setInterval(f, period); ... }, [])
Mount(v) ==
  /\ phase[v] = "new"
  /\ phase' = [phase EXCEPT ![v] = "mounted"]
  /\ mountAt' = [mountAt EXCEPT ![v] = clock]
  /\ timer' = [timer EXCEPT ![v] = clock + Period(v)]
  /\ RunCallback(v)
  /\ UNCHANGED << clock, horizon, ticks, temperature, humidity, status,
                  lastUpdateTs, variant, okOrder >>
  /\ UNCHANGED notPage

\* one interval callback of view v, when its timer is due
TimerFire(v) ==
  /\ timer[v] # NULL
  /\ timer[v] = clock
  /\ timer' = [timer EXCEPT ![v] = clock + Period(v)]
  /\ ticks' = [ticks EXCEPT ![v] = @ + 1]
  /\ RunCallback(v)
  /\ UNCHANGED << clock, horizon, phase, mountAt, temperature, humidity, status,
                  lastUpdateTs, variant, okOrder >>
  /\ UNCHANGED notPage

MutCleanupKeepsTimer(v) == timer
\* return () => clearInterval(id)
Cleanup(v) == [timer EXCEPT ![v] = NULL]

Unmount(v) ==
  /\ phase[v] = "mounted"
  /\ phase' = [phase EXCEPT ![v] = "unmounted"]
  /\ timer' = Cleanup(v)
  /\ UNCHANGED << clock, horizon, mountAt, ticks, issued, inflight, temperature,
                  humidity, status, lastUpdateTs, now, alerts,
                  variant, okOrder >>
  /\ UNCHANGED notPage

\* time passes: no effect is pending and no due timer is skipped
Advance ==
  /\ clock + Step <= horizon
  /\ \A v \in Views : phase[v] # "new"
  /\ \A v \in Views : timer[v] # NULL => clock + Step <= timer[v]
  /\ clock' = clock + Step
  /\ UNCHANGED << horizon, phase, timer, mountAt, ticks, issued, inflight,
                  temperature, humidity, status, lastUpdateTs, now, alerts,
                  variant, okOrder >>
  /\ UNCHANGED notPage

\* ------------------------------------------------ Home: derived values
\* const isIdeal
isIdeal(t, h) ==
  /\ t # NULL
  /\ h # NULL
  /\ t >= 22
  /\ t <= 28
  /\ h >= 70
  /\ h <= 90

\* the offline branch of getActions() and of the Diagnosis heading
OfflineBranch(st, ts) == st = "OFFLINE" \/ ts = NULL

\* Fan tile: (temperature ?? 0) > 28 ? "ACTIVE" : "IDLE"
FanTile(t) == IF (IF t # NULL THEN t ELSE 0) > 28 THEN "ACTIVE" ELSE "IDLE"

\* Mist tile: (humidity ?? 0) < 70 ? "ACTIVE" : "IDLE"
MistTile(h) == IF (IF h # NULL THEN h ELSE 0) < 70 THEN "ACTIVE" ELSE "IDLE"

\* ------------------------------------------------ history route: the merge
\* Number(text): the whole text must be a number, the empty text is 0
NumberOf(text) ==
  CASE text = "20" -> 20
    [] text = "81" -> 81
    [] text = "" -> 0
    [] OTHER -> NAN

\* parseFloat(text): the longest numeric prefix, NaN when there is none
ParseFloat(text) ==
  CASE text = "20" -> 20
    [] text = "81" -> 81
    [] text = "12abc" -> 12
    [] OTHER -> NAN

\* Number.isFinite(v) ? v : null
FiniteOrNull(v) == IF v # NAN THEN v ELSE NULL

\* Map.prototype.get(key) ?? dflt, the map kept as its entries in insertion order
MapGet(m, key, dflt) ==
  IF \E i \in 1..Len(m) : m[i].ts = key
    THEN m[CHOOSE i \in 1..Len(m) : m[i].ts = key]
    ELSE dflt

MutMapSetAppends(m, rec) == Append(m, rec)
\* Map.prototype.set(rec.ts, rec): replaces the entry of the key where it stands,
\* or adds a last entry
MapSet(m, rec) ==
  IF \E i \in 1..Len(m) : m[i].ts = rec.ts
    THEN [m EXCEPT ![CHOOSE i \in 1..Len(m) : m[i].ts = rec.ts] = rec]
    ELSE Append(m, rec)

\* route.ts: for (const p of suhuList) map.set(p.ts, {ts, temperature, humidity: null})
RECURSIVE SetTemps1(_, _)
SetTemps1(m, list) ==
  IF list = << >> THEN m
  ELSE SetTemps1(MapSet(m, [ts |-> Head(list).ts,
                            temperature |-> FiniteOrNull(NumberOf(Head(list).value)),
                            humidity |-> NULL]),
                 Tail(list))

\* route.ts: for (const p of rhList) { prev = map.get(p.ts) ?? {...}; prev.humidity = ... }
RECURSIVE SetHums1(_, _)
SetHums1(m, list) ==
  IF list = << >> THEN m
  ELSE LET prev == MapGet(m, Head(list).ts,
                          [ts |-> Head(list).ts, temperature |-> NULL,
                           humidity |-> NULL])
       IN SetHums1(MapSet(m, [prev EXCEPT !.humidity =
                                FiniteOrNull(NumberOf(Head(list).value))]),
                   Tail(list))

\* page.tsx route: for (const p of temps) map.set(p.ts, {ts, temperature: parseFloat})
RECURSIVE SetTemps2(_, _)
SetTemps2(m, list) ==
  IF list = << >> THEN m
  ELSE SetTemps2(MapSet(m, [ts |-> Head(list).ts,
                            temperature |-> ParseFloat(Head(list).value),
                            humidity |-> ABSENT]),
                 Tail(list))

\* page.tsx route: for (const p of hums) { obj = map.get(p.ts) || {ts}; obj.humidity = ... }
RECURSIVE SetHums2(_, _)
SetHums2(m, list) ==
  IF list = << >> THEN m
  ELSE LET obj == MapGet(m, Head(list).ts,
                         [ts |-> Head(list).ts, temperature |-> ABSENT,
                          humidity |-> ABSENT])
       IN SetHums2(MapSet(m, [obj EXCEPT !.humidity = ParseFloat(Head(list).value)]),
                   Tail(list))

\* x placed into the sorted sequence s after every element whose ts is not greater
RECURSIVE InsertPoint(_, _)
InsertPoint(x, s) ==
  IF s = << >> THEN << x >>
  ELSE IF x.ts - Head(s).ts < 0 THEN << x >> \o s
  ELSE << Head(s) >> \o InsertPoint(x, Tail(s))

\* Array.from(map.values()).sort((a, b) => a.ts - b.ts)
RECURSIVE SortPoints(_)
SortPoints(s) ==
  IF s = << >> THEN << >>
  ELSE InsertPoint(s[Len(s)], SortPoints(SubSeq(s, 1, Len(s) - 1)))

\* the merged array of each route
MergePoints(route, temps, hums) ==
  IF route = 1
    THEN SortPoints(SetHums1(SetTemps1(<< >>, temps), hums))
    ELSE SortPoints(SetHums2(SetTemps2(<< >>, temps), hums))

\* JSON.stringify of a number property: NaN is written null, undefined is left out
JsonNumber(v) == IF v = NAN THEN NULL ELSE v

\* NextResponse.json(points)
JsonOf(pts) ==
  [i \in 1..Len(pts) |->
     [ts |-> pts[i].ts,
      temperature |-> JsonNumber(pts[i].temperature),
      humidity |-> JsonNumber(pts[i].humidity)]]

\* the history GET from the telemetry response to its own response
HistoryMerge ==
  /\ mergePc = "merging"
  /\ points' = MergePoints(historyRoute, suhuList, rhList)
  /\ body' = JsonOf(points')
  /\ mergePc' = "done"
  /\ UNCHANGED << historyRoute, suhuList, rhList >>
  /\ UNCHANGED notMerge

\* no history GET running
MergeIdle ==
  /\ historyRoute = 1
  /\ suhuList = << >>
  /\ rhList = << >>
  /\ points = << >>
  /\ body = << >>
  /\ mergePc = "idle"

\* ------------------------------------------------ TrendInsights: the stats memo
\* a quotient of two integers, kept exact: the source computes it in floating point
Rat(n, d) == [num |-> n, den |-> d]
\* null where the value is a quotient, null where it is a trend label
NoRat == Rat(NULL, 0)
NoLabel == "null"

\* v != null: neither null nor undefined
Present(v) == v # NULL /\ v # ABSENT

\* points.map(p => p.temperature).filter(v => v != null)
Temps(pts) == SelectSeq([i \in 1..Len(pts) |-> pts[i].temperature], Present)
\* points.map(p => p.humidity).filter(v => v != null)
Hums(pts) == SelectSeq([i \in 1..Len(pts) |-> pts[i].humidity], Present)

\* arr.reduce((a, b) => a + b, 0)
RECURSIVE SumSeq(_)
SumSeq(arr) == IF arr = << >> THEN 0 ELSE Head(arr) + SumSeq(Tail(arr))

\* function mean(arr), in 1/Scale of a unit
mean(arr) == Rat(SumSeq(arr), Len(arr))

MutMinOfFirst(arr) == arr[1]
\* Math.min(...arr) of a non-empty array
MinOf(arr) ==
  CHOOSE x \in { arr[i] : i \in 1..Len(arr) } : \A j \in 1..Len(arr) : x <= arr[j]
\* Math.max(...arr) of a non-empty array
MaxOf(arr) ==
  CHOOSE x \in { arr[i] : i \in 1..Len(arr) } : \A j \in 1..Len(arr) : x >= arr[j]

MutIsIdealExclusive(p) ==
  /\ p.temperature > 22 * Scale /\ p.temperature <= 28 * Scale
  /\ p.humidity >= 70 * Scale /\ p.humidity <= 90 * Scale
\* const isIdeal of the idealPct loop
IsIdealPoint(p) ==
  /\ p.temperature >= 22 * Scale /\ p.temperature <= 28 * Scale
  /\ p.humidity >= 70 * Scale /\ p.humidity <= 90 * Scale

\* the idealPct loop: << idealCount, validCount >> after the points of pts
RECURSIVE IdealLoop(_)
IdealLoop(pts) ==
  IF pts = << >> THEN << 0, 0 >>
  ELSE LET p == pts[Len(pts)]
           c == IdealLoop(SubSeq(pts, 1, Len(pts) - 1))
       IN IF ~Present(p.temperature) \/ ~Present(p.humidity) THEN c
          ELSE << c[1] + (IF IsIdealPoint(p) THEN 1 ELSE 0), c[2] + 1 >>

\* validCount ? (idealCount / validCount) * 100 : null
IdealPct(pts) ==
  LET c == IdealLoop(pts)
  IN IF c[2] # 0 THEN Rat(c[1] * 100, c[2]) ELSE NoRat

\* Array.prototype.slice(start, end): a negative index counts from the end
SliceIndex(k, n) == IF k < 0 THEN (IF n + k < 0 THEN 0 ELSE n + k)
                    ELSE (IF k > n THEN n ELSE k)
Slice(arr, start, end) ==
  SubSeq(arr, SliceIndex(start, Len(arr)) + 1, SliceIndex(end, Len(arr)))

\* Math.max(4, Math.floor(n * 0.1))
Window(n) == IF n \div 10 > 4 THEN n \div 10 ELSE 4
\* points.slice(n - window)
LastWindow(pts) == Slice(pts, Len(pts) - Window(Len(pts)), Len(pts))
\* points.slice(n - window * 2, n - window)
PrevWindow(pts) ==
  Slice(pts, Len(pts) - Window(Len(pts)) * 2, Len(pts) - Window(Len(pts)))

Abs(x) == IF x < 0 THEN -x ELSE x

MutTrendStableInclusive(a, b) ==
  IF Len(a) = 0 \/ Len(b) = 0 THEN NoLabel
  ELSE LET d == Rat(SumSeq(a) * Len(b) - SumSeq(b) * Len(a), Len(a) * Len(b) * Scale)
       IN IF 5 * Abs(d.num) <= d.den THEN "stabil"
          ELSE IF d.num > 0 THEN "naik" ELSE "turun"
\* function trend(a, b): d = mean(a) - mean(b) in units, Math.abs(d) < 0.2
trend(a, b) ==
  IF Len(a) = 0 \/ Len(b) = 0 THEN NoLabel
  ELSE LET d == Rat(SumSeq(a) * Len(b) - SumSeq(b) * Len(a), Len(a) * Len(b) * Scale)
       IN IF 5 * Abs(d.num) < d.den THEN "stabil"
          ELSE IF d.num > 0 THEN "naik" ELSE "turun"

\* the value of the stats memo for the points pts
StatsOf(pts) ==
  IF Len(pts) = 0
    THEN [minT |-> NULL, maxT |-> NULL, avgT |-> NoRat,
          minH |-> NULL, maxH |-> NULL, avgH |-> NoRat,
          idealPct |-> NoRat, trendT |-> NoLabel, trendH |-> NoLabel,
          latestTs |-> NULL]
    ELSE [minT |-> IF Len(Temps(pts)) # 0 THEN MinOf(Temps(pts)) ELSE NULL,
          maxT |-> IF Len(Temps(pts)) # 0 THEN MaxOf(Temps(pts)) ELSE NULL,
          avgT |-> IF Len(Temps(pts)) # 0 THEN mean(Temps(pts)) ELSE NoRat,
          minH |-> IF Len(Hums(pts)) # 0 THEN MinOf(Hums(pts)) ELSE NULL,
          maxH |-> IF Len(Hums(pts)) # 0 THEN MaxOf(Hums(pts)) ELSE NULL,
          avgH |-> IF Len(Hums(pts)) # 0 THEN mean(Hums(pts)) ELSE NoRat,
          idealPct |-> IdealPct(pts),
          trendT |-> trend(Temps(LastWindow(pts)), Temps(PrevWindow(pts))),
          trendH |-> trend(Hums(LastWindow(pts)), Hums(PrevWindow(pts))),
          latestTs |-> pts[Len(pts)].ts]

\* the render after setPoints(json): the memo is computed for the new points
RenderStats ==
  /\ trendPc = "set"
  /\ stats' = StatsOf(trendPoints)
  /\ trendPc' = "rendered"
  /\ UNCHANGED trendPoints
  /\ UNCHANGED notTrend

\* TrendInsights before any response: points = [], the memo of the first render
TrendIdle ==
  /\ trendPoints = << >>
  /\ stats = StatsOf(<< >>)
  /\ trendPc = "idle"


\* ------------------------------------------- the proxy GET handlers
\* the process.env variables the handlers read
EnvNames == {"TB_URL", "TB_USERNAME", "TB_PASSWORD", "TB_DEVICE_ID"}
\* a variable is not defined, defined as the empty text, defined as a text
EnvStates == {"unset", "empty", "set"}
\* the text of an upstream non-2xx body; the JSON of an upstream 2xx body
UpstreamTexts == {"", "Unauthorized"}
LoginBodies == {"invalid", "null", "token", "notoken"}
TeleBodies == {"invalid", "null", "series"}
\* a property a JSON body does not have
NoField == "undefined"
\* no upstream outcome yet; fetch rejected; a response with its ok flag and body
NoRes == [kind |-> "none", ok |-> FALSE, text |-> NoField]
Rejected == [kind |-> "rejected", ok |-> FALSE, text |-> NoField]
Res(ok, text) == [kind |-> "response", ok |-> ok, text |-> text]

MutConfigSkipsDeviceId(e) == \E n \in EnvNames \ {"TB_DEVICE_ID"} : e[n] # "set"
\* !baseUrl || !username || !password || !deviceId: undefined and "" are falsy
ConfigMissing(e) == \E n \in EnvNames : e[n] # "set"

\* return NextResponse.json(...): the handler is over
Respond(r) ==
  /\ responses' = Append(responses, r)
  /\ proxyPc' = "done"

MutCatchRethrows(err) ==
  /\ thrown' = err
  /\ proxyPc' = "crashed"
  /\ UNCHANGED responses
\* catch (err) { return NextResponse.json({error, details: String(err)}, 500) }
Catch(err) ==
  /\ thrown' = err
  /\ Respond([status |-> 500, error |-> "Unexpected error", details |-> err])

\* the body of a 2xx response of the latest GET
LatestOf(tempArr, humArr) ==
  [temperature |-> IF Len(tempArr) > 0
                     THEN JsonNumber(ParseFloat(tempArr[1].value)) ELSE NULL,
   humidity |-> IF Len(humArr) > 0
                  THEN JsonNumber(ParseFloat(humArr[1].value)) ELSE NULL,
   ts |-> IF Len(tempArr) > 0 THEN tempArr[1].ts
          ELSE IF Len(humArr) > 0 THEN humArr[1].ts ELSE NULL]

\* GET up to the first await: the configuration check, then the login request
GetStart ==
  /\ proxyPc = "start"
  /\ IF ConfigMissing(env)
       THEN /\ Respond([status |-> 500, error |-> "ThingsBoard env vars not set",
                        details |-> NoField])
            /\ UNCHANGED upstream
       ELSE /\ upstream' = Append(upstream, "login")
            /\ proxyPc' = "login"
            /\ UNCHANGED responses
  /\ UNCHANGED << handler, env, loginRes, teleRes, thrown, latest >>
  /\ UNCHANGED notProxy

\* await fetch(login) rejects
LoginRejected ==
  /\ proxyPc = "login"
  /\ loginRes' = Rejected
  /\ Catch("TypeError: fetch failed")
  /\ UNCHANGED << handler, env, upstream, teleRes, latest >>
  /\ UNCHANGED notProxy

MutLoginNotOkGoesOn(text) ==
  /\ proxyPc = "login"
  /\ loginRes' = Res(FALSE, text)
  /\ upstream' = Append(upstream, "telemetry")
  /\ proxyPc' = "telemetry"
  /\ UNCHANGED << handler, env, responses, teleRes, thrown, latest >>
  /\ UNCHANGED notProxy
\* if (!loginRes.ok) return 500 with the text of the upstream body
LoginNotOk(text) ==
  /\ proxyPc = "login"
  /\ loginRes' = Res(FALSE, text)
  /\ Respond([status |-> 500, error |-> "Failed to login to ThingsBoard",
              details |-> text])
  /\ UNCHANGED << handler, env, upstream, teleRes, thrown, latest >>
  /\ UNCHANGED notProxy

\* loginRes.ok: the token is read from the body, then the telemetry request
LoginOk(b) ==
  /\ proxyPc = "login"
  /\ loginRes' = Res(TRUE, b)
  /\ CASE b = "invalid" -> Catch("SyntaxError") /\ UNCHANGED upstream
       [] b = "null" -> Catch("TypeError: token of null") /\ UNCHANGED upstream
       [] OTHER -> /\ upstream' = Append(upstream, "telemetry")
                   /\ proxyPc' = "telemetry"
                   /\ UNCHANGED << responses, thrown >>
  /\ UNCHANGED << handler, env, teleRes, latest >>
  /\ UNCHANGED notProxy

\* a handler that repeats the telemetry request once after a rejection
MutTeleRejectedRetries ==
  /\ proxyPc = "telemetry"
  /\ teleRes' = Rejected
  /\ IF Len(upstream) < 3
       THEN /\ upstream' = Append(upstream, "telemetry")
            /\ UNCHANGED << proxyPc, responses, thrown >>
       ELSE /\ Catch("TypeError: fetch failed")
            /\ UNCHANGED upstream
  /\ UNCHANGED << handler, env, loginRes, latest >>
  /\ UNCHANGED notProxy
\* await fetch(telemetry) rejects
TeleRejected ==
  /\ proxyPc = "telemetry"
  /\ teleRes' = Rejected
  /\ Catch("TypeError: fetch failed")
  /\ UNCHANGED << handler, env, upstream, loginRes, latest >>
  /\ UNCHANGED notProxy

\* if (!teleRes.ok) return 500 with the text of the upstream body
TeleNotOk(text) ==
  /\ proxyPc = "telemetry"
  /\ teleRes' = Res(FALSE, text)
  /\ Respond([status |-> 500,
              error |-> IF handler = "latest" THEN "Failed to fetch telemetry"
                        ELSE "Failed to fetch telemetry history",
              details |-> text])
  /\ UNCHANGED << handler, env, upstream, loginRes, thrown, latest >>
  /\ UNCHANGED notProxy

\* teleRes.ok with a body that is no JSON, or the JSON null
TeleBad(b) ==
  /\ proxyPc = "telemetry"
  /\ b # "series"
  /\ teleRes' = Res(TRUE, b)
  /\ IF b = "invalid" THEN Catch("SyntaxError")
     ELSE Catch("TypeError: temperature of null")
  /\ UNCHANGED << handler, env, upstream, loginRes, latest >>
  /\ UNCHANGED notProxy

\* teleRes.ok with the two series: the body is built and returned with status 200
TeleOk(temps, hums) ==
  /\ proxyPc = "telemetry"
  /\ teleRes' = Res(TRUE, "series")
  /\ Respond([status |-> 200, error |-> NoField, details |-> NoField])
  /\ IF handler = "latest"
       THEN /\ latest' = LatestOf(temps, hums)
            /\ suhuList' = temps
            /\ rhList' = hums
            /\ UNCHANGED << historyRoute, points, body, mergePc >>
       ELSE /\ suhuList' = temps
            /\ rhList' = hums
            /\ points' = MergePoints(historyRoute, temps, hums)
            /\ body' = JsonOf(points')
            /\ mergePc' = "done"
            /\ UNCHANGED << historyRoute, latest >>
  /\ UNCHANGED << handler, env, upstream, loginRes, thrown >>
  /\ UNCHANGED << pageVars, trendVars >>

\* no GET running
ProxyIdle ==
  /\ handler = "latest"
  /\ env = [n \in EnvNames |-> "set"]
  /\ proxyPc = "idle"
  /\ upstream = << >>
  /\ responses = << >>
  /\ loginRes = NoRes
  /\ teleRes = NoRes
  /\ thrown = NoField
  /\ latest = LatestOf(<< >>, << >>)

\* the views of the set R rendered, no effect run yet
Rendered(R) ==
  /\ phase = [v \in Views |-> IF v \in R THEN "new" ELSE "absent"]
  /\ timer = [v \in Views |-> NULL]
  /\ mountAt = [v \in Views |-> NULL]
  /\ ticks = [v \in Views |-> 0]
  /\ issued = [v \in Views |-> 0]
  /\ inflight = [v \in Views |-> {}]
  /\ okOrder = << >>

\* ---------------------------------------------- evaluator specification
\* AlertsRules rendered with arbitrary props; its effect, its clock, its cleanup
InitAlerts ==
  /\ clock = T0
  /\ horizon = T0 + AlertSteps * Step
  /\ Rendered({"AlertsRules"})
  /\ temperature \in TempInputs
  /\ humidity \in HumInputs
  /\ status \in Statuses
  /\ lastUpdateTs \in TsInputs
  /\ variant \in Variants
  /\ now = NULL
  /\ alerts = AlertsMemo(variant, temperature, humidity, status, lastUpdateTs, NULL)
  /\ MergeIdle
  /\ TrendIdle
  /\ ProxyIdle

NextAlerts ==
  \/ Mount("AlertsRules")
  \/ TimerFire("AlertsRules")
  \/ Unmount("AlertsRules")
  \/ Advance

SpecAlerts == InitAlerts /\ [][NextAlerts]_vars


\* ------------------------------------------------ latest-value poller (Home)
THRESHOLD_MS == 2 * 60 * 1000

MutStatusBelow(ts, dateNow) ==
  IF ~Truthy(ts) THEN "OFFLINE"
  ELSE IF dateNow - ts >= THRESHOLD_MS THEN "OFFLINE" ELSE "ONLINE"
MutStatusUnknownWithoutTs(ts, dateNow) ==
  IF ~Truthy(ts) THEN "UNKNOWN"
  ELSE IF dateNow - ts > THRESHOLD_MS THEN "OFFLINE" ELSE "ONLINE"
\* if (!json.ts) OFFLINE else (Date.now() - json.ts > THRESHOLD_MS ? OFFLINE : ONLINE)
StatusAfter(ts, dateNow) ==
  IF ~Truthy(ts) THEN "OFFLINE"
  ELSE IF dateNow - ts > THRESHOLD_MS THEN "OFFLINE" ELSE "ONLINE"

\* Home renders again with the new state: a rendered AlertsRules recomputes its memo
Rerender(t, h, st, ts) ==
  alerts' = IF phase["AlertsRules"] \in {"new", "mounted"}
              THEN AlertsMemo(variant, t, h, st, ts, now)
              ELSE alerts

\* a fetchData that drops the response of a call older than one already applied
MutFetchDataNewestWins(id, json) ==
  /\ id \in inflight["Home"]
  /\ inflight' = [inflight EXCEPT !["Home"] = @ \ {id}]
  /\ IF \E k \in 1..Len(okOrder) : okOrder[k] > id
       THEN UNCHANGED << temperature, humidity, lastUpdateTs, status, alerts,
                         okOrder >>
       ELSE /\ temperature' = json.temperature
            /\ humidity' = json.humidity
            /\ lastUpdateTs' = json.ts
            /\ status' = StatusAfter(json.ts, clock)
            /\ Rerender(temperature', humidity', status', lastUpdateTs')
            /\ okOrder' = Append(okOrder, id)
  /\ UNCHANGED << clock, horizon, phase, timer, mountAt, ticks, issued, now, variant >>
  /\ UNCHANGED notPage
\* fetchData continues with a 2xx response whose body is json
FetchDataOk(id, json) ==
  /\ id \in inflight["Home"]
  /\ inflight' = [inflight EXCEPT !["Home"] = @ \ {id}]
  /\ temperature' = json.temperature
  /\ humidity' = json.humidity
  /\ lastUpdateTs' = json.ts
  /\ status' = StatusAfter(json.ts, clock)
  /\ Rerender(temperature', humidity', status', lastUpdateTs')
  /\ okOrder' = Append(okOrder, id)
  /\ UNCHANGED << clock, horizon, phase, timer, mountAt, ticks, issued, now, variant >>
  /\ UNCHANGED notPage

MutFailureClearsValues(id) ==
  /\ id \in inflight["Home"]
  /\ inflight' = [inflight EXCEPT !["Home"] = @ \ {id}]
  /\ status' = "OFFLINE"
  /\ temperature' = NULL
  /\ humidity' = NULL
  /\ lastUpdateTs' = NULL
  /\ Rerender(temperature', humidity', status', lastUpdateTs')
  /\ UNCHANGED << clock, horizon, phase, timer, mountAt, ticks, issued, now,
                  variant, okOrder >>
  /\ UNCHANGED notPage
\* a failure path that also clears the interval
MutFailureStopsTimer(id) ==
  /\ id \in inflight["Home"]
  /\ inflight' = [inflight EXCEPT !["Home"] = @ \ {id}]
  /\ status' = "OFFLINE"
  /\ timer' = [timer EXCEPT !["Home"] = NULL]
  /\ Rerender(temperature, humidity, status', lastUpdateTs)
  /\ UNCHANGED << clock, horizon, phase, mountAt, ticks, issued,
                  temperature, humidity, lastUpdateTs, now, variant, okOrder >>
  /\ UNCHANGED notPage
\* the failure paths of fetchData: setStatus("OFFLINE") and nothing else
FetchDataFail(id) ==
  /\ id \in inflight["Home"]
  /\ inflight' = [inflight EXCEPT !["Home"] = @ \ {id}]
  /\ status' = "OFFLINE"
  /\ Rerender(temperature, humidity, status', lastUpdateTs)
  /\ UNCHANGED << clock, horizon, phase, timer, mountAt, ticks, issued,
                  temperature, humidity, lastUpdateTs, now, variant, okOrder >>
  /\ UNCHANGED notPage

\* fetchData continues with a non-2xx response: if (!res.ok) { ...; return; }
FetchDataNotOk(id) == FetchDataFail(id)

\* fetch() rejects or res.json() throws: catch (err) { ...; setStatus("OFFLINE") }
FetchDataThrow(id) == FetchDataFail(id)

\* the mounted page: Home with its AlertsRules child
Init ==
  /\ clock = T0
  /\ horizon = T0 + PollSteps * Step
  /\ Rendered({"Home", "AlertsRules"})
  /\ temperature = NULL
  /\ humidity = NULL
  /\ status = "UNKNOWN"
  /\ lastUpdateTs = NULL
  /\ variant \in Variants
  /\ now = NULL
  /\ alerts = AlertsMemo(variant, temperature, humidity, status, lastUpdateTs, NULL)
  /\ MergeIdle
  /\ TrendIdle
  /\ ProxyIdle

Next ==
  \/ \E v \in {"Home", "AlertsRules"} : Mount(v)
  \/ \E v \in {"Home", "AlertsRules"} : TimerFire(v)
  \/ \E v \in {"Home", "AlertsRules"} : Unmount(v)
  \/ Advance
  \/ \E id \in inflight["Home"] : \E json \in LatestJson(clock) : FetchDataOk(id, json)
  \/ \E id \in inflight["Home"] : FetchDataNotOk(id)
  \/ \E id \in inflight["Home"] : FetchDataThrow(id)

Spec == Init /\ [][Next]_vars

\* ------------------------------------------------- evaluator: the claims
HasAlert(i) == \E k \in 1..Len(alerts) : alerts[k].id = i

SeverityOf(i) == (CHOOSE k \in 1..Len(alerts) : alerts[k].id = i)

OnlyGatewayAlert ==
  /\ Len(alerts) = 1
  /\ alerts[1].id = "gateway-offline"
  /\ alerts[1].severity = "CRIT"

\* C1: with no last-update timestamp, or with status OFFLINE, the result is
\* exactly one alert, gateway-offline with severity CRIT, whatever the readings
C1_OfflineSingleAlert ==
  (lastUpdateTs = NULL \/ status = "OFFLINE") => OnlyGatewayAlert

C1_Witness ==
  /\ status = "OFFLINE"
  /\ Truthy(lastUpdateTs)
  /\ temperature = 31
  /\ humidity = 95
  /\ now # NULL
  /\ OnlyGatewayAlert

\* C2: whenever ts is present and older than 120000 ms the result is the single
\* gateway-offline alert, for every status, also in the evaluations made before
\* the 1-second clock has produced its first now (the age is then the wall
\* clock's)
C2_StaleSingleAlert ==
  LET evaluatedAt == IF now # NULL THEN now ELSE clock
  IN (lastUpdateTs # NULL /\ evaluatedAt - lastUpdateTs > 120000)
       => OnlyGatewayAlert

\* C3: when the connectivity rule did not fire, temp-high is present iff
\* t > 28 and is CRIT iff t > 30, else WARN; temp-low is present iff t < 22 and
\* is CRIT iff t < 20, else WARN; a null temperature fires neither
C3_TemperatureRules ==
  ~HasAlert("gateway-offline") =>
    /\ HasAlert("temp-high") <=> (temperature # NULL /\ temperature > 28)
    /\ HasAlert("temp-high") =>
         alerts[SeverityOf("temp-high")].severity =
           (IF temperature > 30 THEN "CRIT" ELSE "WARN")
    /\ HasAlert("temp-low") <=> (temperature # NULL /\ temperature < 22)
    /\ HasAlert("temp-low") =>
         alerts[SeverityOf("temp-low")].severity =
           (IF temperature < 20 THEN "CRIT" ELSE "WARN")

C3_Witness ==
  /\ temperature = 30
  /\ now # NULL
  /\ \E k \in 1..Len(alerts) :
       alerts[k].id = "temp-high" /\ alerts[k].severity = "WARN"

\* C4: when the connectivity rule did not fire, rh-high is present iff h > 90
\* and is CRIT iff h > 94, else WARN; rh-low is present iff h < 70 and is CRIT
\* iff h < 65, else WARN; a null humidity fires neither; the temperature plays
\* no part
C4_HumidityRules ==
  ~HasAlert("gateway-offline") =>
    /\ HasAlert("rh-high") <=> (humidity # NULL /\ humidity > 90)
    /\ HasAlert("rh-high") =>
         alerts[SeverityOf("rh-high")].severity =
           (IF humidity > 94 THEN "CRIT" ELSE "WARN")
    /\ HasAlert("rh-low") <=> (humidity # NULL /\ humidity < 70)
    /\ HasAlert("rh-low") =>
         alerts[SeverityOf("rh-low")].severity =
           (IF humidity < 65 THEN "CRIT" ELSE "WARN")

C4_Witness ==
  /\ humidity = 65
  /\ temperature = 31
  /\ now # NULL
  /\ \E k \in 1..Len(alerts) :
       alerts[k].id = "rh-low" /\ alerts[k].severity = "WARN"

\* C5: the returned list is ordered by severity, CRIT before WARN before INFO,
\* and alerts of equal severity by descending timestamp
C5_SortedBySeverity ==
  \A i, j \in 1..Len(alerts) :
    i < j =>
      \/ severityRank(alerts[i].severity) < severityRank(alerts[j].severity)
      \/ /\ alerts[i].severity = alerts[j].severity
         /\ alerts[i].ts >= alerts[j].ts

\* ------------------------------------------------- poller: the claims
\* C6 as stated: after a 2xx fetch of /api/tb/latest, status is ONLINE iff the
\* returned ts is present and its age is below 120000 ms, and OFFLINE otherwise
C6_OnlineIffBelow ==
  [][\A id \in inflight["Home"] : \A json \in LatestJson(clock) :
       FetchDataOk(id, json) =>
         /\ status' \in {"ONLINE", "OFFLINE"}
         /\ status' = "ONLINE" <=> (json.ts # NULL /\ clock - json.ts < 120000)]_vars

\* C6 amended: after a 2xx fetch of /api/tb/latest, status is ONLINE iff the
\* returned ts is present and its age is at most 120000 ms, and OFFLINE otherwise
C6_OnlineIffAtMost ==
  [][\A id \in inflight["Home"] : \A json \in LatestJson(clock) :
       FetchDataOk(id, json) =>
         /\ status' \in {"ONLINE", "OFFLINE"}
         /\ status' = "ONLINE" <=> (json.ts # NULL /\ clock - json.ts <= 120000)]_vars

C6_Witness ==
  /\ status = "ONLINE"
  /\ lastUpdateTs # NULL
  /\ clock - lastUpdateTs = 120000
  /\ issued["Home"] >= 2

\* C7: a failed fetch (non-2xx, or a thrown error) sets status to OFFLINE and
\* leaves temperature, humidity and lastUpdateTs as they were; these three
\* change only when a poll succeeds
C7_FailureKeepsValues ==
  [][/\ \A id \in inflight["Home"] :
          (FetchDataNotOk(id) \/ FetchDataThrow(id)) =>
            /\ status' = "OFFLINE"
            /\ temperature' = temperature
            /\ humidity' = humidity
            /\ lastUpdateTs' = lastUpdateTs
     /\ << temperature, humidity, lastUpdateTs >>' #
          << temperature, humidity, lastUpdateTs >> =>
            \E id \in inflight["Home"] : \E json \in LatestJson(clock) :
              FetchDataOk(id, json)]_vars

C7_Witness ==
  /\ status = "OFFLINE"
  /\ temperature = 25
  /\ humidity = 80
  /\ Truthy(lastUpdateTs)
  /\ clock - lastUpdateTs <= 120000

\* ------------------------------------------------- timer specification
\* the four views rendered; their effects, their interval callbacks, their
\* cleanups.  The continuations of the fetches read and write no timer state and
\* are left to Spec.
InitTimers ==
  /\ clock = T0
  /\ horizon = T0 + TimerSteps * Step
  /\ Rendered(Views)
  /\ temperature = NULL
  /\ humidity = NULL
  /\ status = "UNKNOWN"
  /\ lastUpdateTs = NULL
  /\ variant = 2
  /\ now = NULL
  /\ alerts = AlertsMemo(variant, temperature, humidity, status, lastUpdateTs, NULL)
  /\ MergeIdle
  /\ TrendIdle
  /\ ProxyIdle

NextTimers ==
  \/ \E v \in Views : Mount(v)
  \/ \E v \in Views : TimerFire(v)
  \/ \E v \in Views : Unmount(v)
  \/ Advance

SpecTimers == InitTimers /\ [][NextTimers]_vars

\* C8: after a view is unmounted its timer is cancelled, and the view issues no
\* further fetch (AlertsRules: no further clock tick)
C8_NoFetchAfterUnmount ==
  [][\A v \in Views :
       phase[v] = "unmounted" =>
         /\ timer[v] = NULL
         /\ issued'[v] = issued[v]
         /\ ticks'[v] = ticks[v]]_vars

C8_Witness ==
  \A v \in Views :
    /\ phase[v] = "unmounted"
    /\ clock >= mountAt[v] + (ticks[v] + 1) * Period(v)

\* C9 as stated: one fetch on mount before any tick, then one fetch per tick,
\* the k-th tick k periods after the mount, the period being 5 s for the
\* latest-value view and 15 s for the two history views
C9_PeriodsAsStated ==
  \A v \in Pollers :
    LET P == CASE v = "Home" -> 5000
               [] v = "TelemetryChart" -> 15000
               [] v = "TrendInsights" -> 15000
    IN /\ phase[v] = "new" => issued[v] = 0 /\ ticks[v] = 0
       /\ phase[v] \in {"mounted", "unmounted"} => issued[v] = ticks[v] + 1
       /\ phase[v] = "mounted" =>
            /\ ticks[v] * P <= clock - mountAt[v]
            /\ clock - mountAt[v] <= (ticks[v] + 1) * P

\* C9 amended: one fetch on mount before any tick, then one fetch per tick,
\* the k-th tick k periods after the mount, the period being 5 s for Home and
\* for TelemetryChart and 15 s for TrendInsights
C9_PeriodsOfTheCode ==
  \A v \in Pollers :
    LET P == CASE v = "Home" -> 5000
               [] v = "TelemetryChart" -> 5000
               [] v = "TrendInsights" -> 15000
    IN /\ phase[v] = "new" => issued[v] = 0 /\ ticks[v] = 0
       /\ phase[v] \in {"mounted", "unmounted"} => issued[v] = ticks[v] + 1
       /\ phase[v] = "mounted" =>
            /\ ticks[v] * P <= clock - mountAt[v]
            /\ clock - mountAt[v] <= (ticks[v] + 1) * P

C9_Witness ==
  /\ \A v \in Pollers : phase[v] = "mounted"
  /\ ticks["Home"] = 3
  /\ ticks["TelemetryChart"] = 3
  /\ ticks["TrendInsights"] = 1
  /\ issued["TrendInsights"] = 2
\* ------------------------------------------------- merge specification
\* no page rendered
PageIdle ==
  /\ clock = T0
  /\ horizon = T0
  /\ Rendered({})
  /\ temperature = NULL
  /\ humidity = NULL
  /\ status = "UNKNOWN"
  /\ lastUpdateTs = NULL
  /\ variant = 2
  /\ now = NULL
  /\ alerts = << >>

\* a history GET of either route holding the two series of a telemetry response
InitMerge ==
  /\ PageIdle
  /\ TrendIdle
  /\ ProxyIdle
  /\ historyRoute \in {1, 2}
  /\ suhuList \in SeriesInputs
  /\ rhList \in SeriesInputs
  /\ points = << >>
  /\ body = << >>
  /\ mergePc = "merging"

NextMerge == HistoryMerge

SpecMerge == InitMerge /\ [][NextMerge]_vars

\* C10: for every pair of input series, repeated timestamps included, the merged
\* output has pairwise distinct timestamps in ascending order
C10_MergedUniqueAscending ==
  mergePc = "done" =>
    /\ Len(body) = Len(points)
    /\ \A i, j \in 1..Len(points) :
         i < j => points[i].ts < points[j].ts /\ body[i].ts < body[j].ts

C10_Witness ==
  /\ mergePc = "done"
  /\ Len(suhuList) = 2
  /\ suhuList[1].ts = 300
  /\ suhuList[2].ts = 300
  /\ Len(rhList) = 2
  /\ rhList[1].ts = 200
  /\ rhList[2].ts = 100
  /\ Len(points) = 3

\* the timestamps of a telemetry series
TsOf(list) == { list[i].ts : i \in 1..Len(list) }

\* the number written by the last point of the series at timestamp t (the later
\* point of a repeated timestamp replaces the earlier one)
LastNumberAt(list, t) ==
  LET k == CHOOSE i \in 1..Len(list) :
             list[i].ts = t /\ \A j \in 1..Len(list) : list[j].ts = t => j <= i
  IN IF list[k].value = "20" THEN 20 ELSE NULL

\* C11: the timestamps of the output are the union of the timestamps of the two
\* series; a timestamp of both series carries both values; a timestamp of one
\* series only carries null for the other metric
C11_UnionWithNullFill ==
  mergePc = "done" =>
    /\ { body[i].ts : i \in 1..Len(body) } = TsOf(suhuList) \cup TsOf(rhList)
    /\ \A i \in 1..Len(body) :
         /\ body[i].temperature =
              IF body[i].ts \in TsOf(suhuList)
                THEN LastNumberAt(suhuList, body[i].ts) ELSE NULL
         /\ body[i].humidity =
              IF body[i].ts \in TsOf(rhList)
                THEN LastNumberAt(rhList, body[i].ts) ELSE NULL

\* ------------------------------------------- statistics specification
\* TrendInsights after setPoints(json) of one 2xx response, before the render
InitTrend ==
  /\ PageIdle
  /\ MergeIdle
  /\ ProxyIdle
  /\ trendPoints \in Histories
  /\ stats = StatsOf(<< >>)
  /\ trendPc = "set"

NextTrend == RenderStats

SpecTrend == InitTrend /\ [][NextTrend]_vars

\* a raw value outside [0, 100] replaced by null
InRange(v) == IF Present(v) /\ (v < 0 \/ v > 100 * Scale) THEN NULL ELSE v
RangeChecked(pts) ==
  [i \in 1..Len(pts) |->
     [ts |-> pts[i].ts, temperature |-> InRange(pts[i].temperature),
      humidity |-> InRange(pts[i].humidity)]]

\* C12: min, max, mean, idealPct and trend are those of the history whose values
\* outside [0, 100] are replaced by null
C12_OutOfRangeIsAbsent ==
  trendPc = "rendered" => stats = StatsOf(RangeChecked(trendPoints))

\* the indexes of the samples that have a value of the metric
HasValue(metric) ==
  { i \in 1..Len(trendPoints) : trendPoints[i][metric] \notin {NULL, ABSENT} }

\* the sum of the metric over the samples of the index set I
RECURSIVE SumAt(_, _)
SumAt(metric, I) ==
  IF I = {} THEN 0
  ELSE LET i == CHOOSE k \in I : TRUE
       IN trendPoints[i][metric] + SumAt(metric, I \ {i})

MinMaxMeanOf(metric, mn, mx, av) ==
  LET I == HasValue(metric)
  IN IF I = {}
       THEN mn = NULL /\ mx = NULL /\ av = NoRat
       ELSE /\ \E i \in I : mn = trendPoints[i][metric]
            /\ \A i \in I : mn <= trendPoints[i][metric]
            /\ \E i \in I : mx = trendPoints[i][metric]
            /\ \A i \in I : mx >= trendPoints[i][metric]
            /\ av.den > 0
            /\ av.num * Cardinality(I) = SumAt(metric, I) * av.den
            /\ mn * av.den <= av.num
            /\ av.num <= mx * av.den

BothPresent == HasValue("temperature") \cap HasValue("humidity")
InIdealBand ==
  { i \in BothPresent :
      /\ 22 * Scale <= trendPoints[i].temperature
      /\ trendPoints[i].temperature <= 28 * Scale
      /\ 70 * Scale <= trendPoints[i].humidity
      /\ trendPoints[i].humidity <= 90 * Scale }

\* C14: idealPct is 100 * (samples with both metrics inside 22..28 and 70..90,
\* bounds included) / (samples with both metrics); it is null iff no sample has
\* both metrics, and lies in [0, 100] otherwise
C14_IdealPct ==
  trendPc = "rendered" =>
    /\ stats.idealPct = NoRat <=> BothPresent = {}
    /\ BothPresent # {} =>
         /\ stats.idealPct.den > 0
         /\ stats.idealPct.num * Cardinality(BothPresent)
              = 100 * Cardinality(InIdealBand) * stats.idealPct.den
         /\ 0 <= stats.idealPct.num
         /\ stats.idealPct.num <= 100 * stats.idealPct.den

C14_Witness ==
  /\ trendPc = "rendered"
  /\ Cardinality(BothPresent) = 10
  /\ Cardinality(InIdealBand) = 9
  /\ stats.idealPct.num = 90 * stats.idealPct.den

\* the label of the claim for the non-null values a of the recent window and b
\* of the prior window: d = mean(a) - mean(b) = n / (den * Scale) units
LabelOf(label, a, b) ==
  LET n == SumSeq(a) * Len(b) - SumSeq(b) * Len(a)
      den == Len(a) * Len(b) * Scale
  IN /\ label = NoLabel <=> (Len(a) = 0 \/ Len(b) = 0)
     /\ (Len(a) # 0 /\ Len(b) # 0) =>
          /\ label = "stabil" <=> (5 * n < den /\ 5 * n > -den)
          /\ label = "naik" <=> 5 * n >= den
          /\ label = "turun" <=> 5 * n <= -den

InitProxy ==
  /\ PageIdle
  /\ TrendIdle
  /\ \/ handler = "latest" /\ historyRoute = 1
     \/ handler = "history" /\ historyRoute \in {1, 2}
  /\ suhuList = << >>
  /\ rhList = << >>
  /\ points = << >>
  /\ body = << >>
  /\ mergePc = "idle"
  /\ env \in [EnvNames -> EnvStates]
  /\ proxyPc = "start"
  /\ upstream = << >>
  /\ responses = << >>
  /\ loginRes = NoRes
  /\ teleRes = NoRes
  /\ thrown = NoField
  /\ latest = LatestOf(<< >>, << >>)

NextProxy ==
  \/ GetStart
  \/ LoginRejected
  \/ \E text \in UpstreamTexts : LoginNotOk(text)
  \/ \E b \in LoginBodies : LoginOk(b)
  \/ TeleRejected
  \/ \E text \in UpstreamTexts : TeleNotOk(text)
  \/ \E b \in TeleBodies : TeleBad(b)
  \/ /\ proxyPc = "telemetry"
     /\ \E temps \in TeleSeries(handler), hums \in TeleSeries(handler) :
          TeleOk(temps, hums)

SpecProxy == InitProxy /\ [][NextProxy]_vars

\* C16: when any of the four environment variables is unset or empty, the GET
\* returns HTTP 500 with an error field and issues no upstream request
C16_MissingConfig ==
  (\E n \in EnvNames : env[n] \in {"unset", "empty"}) =>
    /\ upstream = << >>
    /\ proxyPc \in {"start", "done"}
    /\ proxyPc = "done" =>
         /\ Len(responses) = 1
         /\ responses[1].status = 500
         /\ responses[1].error # NoField

C16_Witness ==
  /\ proxyPc = "done"
  /\ handler = "history"
  /\ env["TB_DEVICE_ID"] = "empty"
  /\ \A n \in EnvNames \ {"TB_DEVICE_ID"} : env[n] = "set"
  /\ Len(responses) = 1
  /\ responses[1].status = 500

Threw ==
  \/ loginRes.kind = "rejected"
  \/ loginRes.kind = "response" /\ loginRes.ok /\ loginRes.text \in {"invalid", "null"}
  \/ teleRes.kind = "rejected"
  \/ teleRes.kind = "response" /\ teleRes.ok /\ teleRes.text \in {"invalid", "null"}

\* C18: an invocation returns one HTTP response and no more; an error thrown at
\* any step after the configuration check is caught and becomes HTTP 500 with a
\* JSON error body, it is never propagated
C18_OneResponse ==
  /\ proxyPc # "crashed"
  /\ Len(responses) = IF proxyPc = "done" THEN 1 ELSE 0
  /\ Threw =>
       /\ proxyPc = "done"
       /\ responses[1].status = 500
       /\ responses[1].error = "Unexpected error"
       /\ responses[1].details # NoField

C18_Witness ==
  /\ proxyPc = "done"
  /\ handler = "history"
  /\ historyRoute = 2
  /\ upstream = << "login", "telemetry" >>
  /\ teleRes = Res(TRUE, "null")
  /\ Len(responses) = 1

\* C19: a tick that finds a fetch of Home still in flight issues a second one;
\* the values shown are those of the 2xx response whose continuation ran last,
\* whichever request it belongs to, an earlier-issued one included
C19_LastResolvedWins ==
  [][/\ (TimerFire("Home") /\ inflight["Home"] # {}) =>
          /\ issued'["Home"] \notin inflight["Home"]
          /\ inflight'["Home"] = inflight["Home"] \cup {issued'["Home"]}
     /\ \A id \in inflight["Home"] : \A json \in LatestJson(clock) :
          FetchDataOk(id, json) =>
            /\ temperature' = json.temperature
            /\ humidity' = json.humidity
            /\ lastUpdateTs' = json.ts
            /\ okOrder' = Append(okOrder, id)]_vars

\* both requests resolved with 2xx, the earlier-issued one last: its values show
C19_Witness ==
  /\ issued["Home"] = 2
  /\ inflight["Home"] = {}
  /\ okOrder = << 2, 1 >>
  /\ temperature = 25
  /\ humidity = 80

\* C20: each poller has at most one fetch in flight at any time
C20_AtMostOneInFlight ==
  \A v \in Pollers : Cardinality(inflight[v]) <= 1

InitRecover ==
  /\ clock = T0
  /\ horizon = T0 + RecoverSteps * Step
  /\ Rendered({"Home"})
  /\ temperature = NULL
  /\ humidity = NULL
  /\ status = "UNKNOWN"
  /\ lastUpdateTs = NULL
  /\ variant = 2
  /\ now = NULL
  /\ alerts = AlertsMemo(variant, temperature, humidity, status, lastUpdateTs, NULL)
  /\ MergeIdle
  /\ TrendIdle
  /\ ProxyIdle

NextRecover ==
  \/ Mount("Home")
  \/ TimerFire("Home")
  \/ Unmount("Home")
  \/ Advance
  \/ \E id \in inflight["Home"] : \E json \in LatestJson(clock) : FetchDataOk(id, json)
  \/ \E id \in inflight["Home"] : FetchDataNotOk(id)
  \/ \E id \in inflight["Home"] : FetchDataThrow(id)

SpecRecover ==
  /\ InitRecover
  /\ [][NextRecover]_vars
  /\ WF_vars(Mount("Home"))
  /\ WF_vars(TimerFire("Home"))
  /\ WF_vars(Advance)

\* C22: while Home stays mounted and its next tick lies within the explored time,
\* whatever happened to the earlier fetches, a further fetch is eventually
\* issued; and a 2xx response whose ts is younger than 2 minutes sets the status
\* to ONLINE and the displayed values to those of the response
C22_PollLoopRecovers ==
  /\ \A n \in 0..RecoverSteps :
       [](( /\ issued["Home"] = n
            /\ phase["Home"] = "mounted"
            /\ mountAt["Home"] + (ticks["Home"] + 1) * 5000 <= horizon )
          => <>(issued["Home"] > n \/ phase["Home"] = "unmounted"))
  /\ [][\A id \in inflight["Home"] : \A json \in LatestJson(clock) :
          ( /\ FetchDataOk(id, json)
            /\ json.ts # NULL
            /\ json.ts # 0
            /\ clock - json.ts < 120000 ) =>
            /\ status' = "ONLINE"
            /\ temperature' = json.temperature
            /\ humidity' = json.humidity
            /\ lastUpdateTs' = json.ts]_vars

\* fetch 1 failed, fetch 2 was issued by the tick and succeeded
C22_Witness ==
  /\ phase["Home"] = "mounted"
  /\ issued["Home"] = 2
  /\ inflight["Home"] = {}
  /\ okOrder = << 2 >>
  /\ status = "ONLINE"
  /\ temperature = 25
  /\ humidity = 80

\* the fetches of Home that have completed, with a 2xx response or not
Completed == (1..issued["Home"]) \ inflight["Home"]

\* C23: while status is UNKNOWN no fetch has completed with a 2xx response; once
\* any fetch has completed, status is ONLINE or OFFLINE; status never becomes
\* UNKNOWN again
C23_UnknownOnlyInitially ==
  /\ [](/\ status = "UNKNOWN" => okOrder = << >>
        /\ Completed # {} => status \in {"ONLINE", "OFFLINE"})
  /\ [][status' = "UNKNOWN" => status = "UNKNOWN"]_vars

\* the only fetch has completed with a 2xx response that has no ts
C23_Witness ==
  /\ issued["Home"] = 1
  /\ Completed = {1}
  /\ okOrder = << 1 >>
  /\ lastUpdateTs = NULL
  /\ status = "OFFLINE"

\* W = max(floor(0.1 * N), 4)
WindowSize(N) == IF N \div 10 > 4 THEN N \div 10 ELSE 4

\* the two windows of the history are the last W points and the W points before
ExactWindows ==
  LET N == Len(trendPoints)
      W == WindowSize(N)
  IN /\ N >= 2 * W
     /\ Len(LastWindow(trendPoints)) = W
     /\ Len(PrevWindow(trendPoints)) = W
     /\ LastWindow(trendPoints) = SubSeq(trendPoints, N - W + 1, N)
     /\ PrevWindow(trendPoints) = SubSeq(trendPoints, N - 2 * W + 1, N - W)

\* C24: the recent window is the last W points and the prior window the W points
\* before it, adjacent and of size W, wherever the history has 2 * W points; and a
\* trend is not null only when it comes from two such windows
C24_TrendWindows ==
  (trendPc = "rendered" /\ Len(trendPoints) >= 1) =>
    /\ Len(trendPoints) >= 2 * WindowSize(Len(trendPoints)) => ExactWindows
    /\ (stats.trendT # NoLabel \/ stats.trendH # NoLabel) => ExactWindows

\* the texts that are the decimal notation of a finite number
Numerals == {"20", "81"}

\* the text of the last point of the series at timestamp t
LastTextAt(list, t) ==
  list[CHOOSE i \in 1..Len(list) :
         list[i].ts = t /\ \A j \in 1..Len(list) : list[j].ts = t => j <= i].value

\* C25: in a 2xx response of the latest GET and of a history GET, a metric whose
\* platform text is not a finite number is null, no value is NaN, and every
\* timestamp of the platform series has its sample in the history
C25_UnparsableIsNull ==
  (proxyPc = "done" /\ responses[1].status = 200) =>
    IF handler = "latest"
      THEN /\ latest.temperature # NAN
           /\ latest.humidity # NAN
           /\ (Len(suhuList) > 0 /\ suhuList[1].value \notin Numerals) =>
                latest.temperature = NULL
           /\ (Len(rhList) > 0 /\ rhList[1].value \notin Numerals) =>
                latest.humidity = NULL
      ELSE /\ TsOf(suhuList) \cup TsOf(rhList) \subseteq
                { body[i].ts : i \in 1..Len(body) }
           /\ \A i \in 1..Len(body) :
                /\ body[i].temperature # NAN
                /\ body[i].humidity # NAN
                /\ (/\ body[i].ts \in TsOf(suhuList)
                    /\ LastTextAt(suhuList, body[i].ts) \notin Numerals) =>
                     body[i].temperature = NULL
                /\ (/\ body[i].ts \in TsOf(rhList)
                    /\ LastTextAt(rhList, body[i].ts) \notin Numerals) =>
                     body[i].humidity = NULL

\* C26: one invocation issues at most one login request and at most one
\* telemetry request, the login first, and repeats neither after a failure
C26_SingleAttempt ==
  /\ upstream \in { << >>, << "login" >>, << "login", "telemetry" >> }
  /\ (loginRes.kind # "none" /\ ~(loginRes.kind = "response" /\ loginRes.ok)) =>
       upstream = << "login" >>
  /\ teleRes.kind # "none" => upstream = << "login", "telemetry" >>

\* the telemetry request was rejected: answered with 500, not repeated
C26_Witness ==
  /\ proxyPc = "done"
  /\ teleRes = Rejected
  /\ upstream = << "login", "telemetry" >>
  /\ responses[1].status = 500

\* C27: the ids of an alert list are pairwise distinct; temp-high and temp-low
\* are never both present, nor rh-high and rh-low; gateway-offline is never
\* together with another alert; the list has at most 2 alerts
C27_DistinctIds ==
  /\ \A i, j \in 1..Len(alerts) : i # j => alerts[i].id # alerts[j].id
  /\ ~(HasAlert("temp-high") /\ HasAlert("temp-low"))
  /\ ~(HasAlert("rh-high") /\ HasAlert("rh-low"))
  /\ HasAlert("gateway-offline") => Len(alerts) = 1
  /\ Len(alerts) <= 2

C27_Witness ==
  /\ Len(alerts) = 2
  /\ HasAlert("temp-low")
  /\ HasAlert("rh-high")
  /\ variant = 2
  /\ now # NULL

\* C28: when the connectivity rule does not fire, the alert list is empty iff
\* the page's isIdeal holds; an empty list is never shown with a reading missing
C28_PanelAgreesOnIdeal ==
  ~HasAlert("gateway-offline") =>
    /\ alerts = << >> <=> isIdeal(temperature, humidity)
    /\ alerts = << >> => (temperature # NULL /\ humidity # NULL)

\* C29: on the mounted page the alert panel shows gateway-offline iff the
\* diagnosis and the recommended actions of the page are in their offline branch
C29_ViewsAgreeOnOffline ==
  (phase["Home"] = "mounted" /\ phase["AlertsRules"] = "mounted") =>
    (HasAlert("gateway-offline") <=> OfflineBranch(status, lastUpdateTs))

\* C30: the Fan tile is ACTIVE iff a temperature is present and above 28, the
\* Mist tile is ACTIVE iff a humidity is present and below 70; with no reading
\* both are IDLE; each is ACTIVE exactly when temp-high / rh-low would fire
C30_ActuatorTiles ==
  phase["Home"] \in {"new", "mounted"} =>
    /\ FanTile(temperature) = "ACTIVE" <=> (temperature # NULL /\ temperature > 28)
    /\ MistTile(humidity) = "ACTIVE" <=> (humidity # NULL /\ humidity < 70)
    /\ temperature = NULL => FanTile(temperature) = "IDLE"
    /\ humidity = NULL => MistTile(humidity) = "IDLE"
    /\ FanTile(temperature) = "ACTIVE" <=> TempHigh(temperature, 0) # << >>
    /\ MistTile(humidity) = "ACTIVE" <=> RhLow(humidity, 0) # << >>

====
